---- MODULE Spec2Model ----
(***************************************************************************)
(* Advanced order lifecycle of the paper-trading backend: the four order   *)
(* registries of AdvancedOrdersService (OCO, bracket, trailing stop,       *)
(* iceberg), the creation and cancel operations, and the price-driven      *)
(* monitors of OrderMonitoringService.update_market_price.                 *)
(*                                                                         *)
(* Prices and quantities are whole numbers.  current_stop_price is held in *)
(* hundredths of the price unit (PriceScale), so that                      *)
(* price * (1 - trail_percent / 100) is exact.  Python's None is the value *)
(* None; "x or d" and "if x" follow Python truthiness (None and 0 are      *)
(* falsy).  The wall-clock stamps created_at, updated_at and executed_at   *)
(* are not part of the model.                                              *)
(*                                                                         *)
(* scheduled is the queue of broadcast tasks handed to the event loop and  *)
(* not yet run; raised is the exception in which the last call ended       *)
(* ("None" when it returned); frame is the activation record of an         *)
(* update_market_price call followed statement by statement (the empty     *)
(* sequence when no such call is on the stack).  trailing_stop_service is  *)
(* the TrailingStopService singleton with the _monitor_loop tasks it has   *)
(* created.                                                                *)
(***************************************************************************)
EXTENDS Integers, Sequences, FiniteSets, TLC

VARIABLES oco_orders, bracket_orders, trailing_stop_orders, iceberg_orders,
          monitored_prices, _websocket_manager, scheduled, raised, frame,
          trailing_stop_service

vars == <<oco_orders, bracket_orders, trailing_stop_orders, iceberg_orders,
          monitored_prices, _websocket_manager, scheduled, raised, frame,
          trailing_stop_service>>

(* ------------------------------ bounds --------------------------------- *)

\* Prices fed by update_market_price and used as trigger prices: 1..MaxPrice.
MaxPrice == 3

\* Iceberg quantities: 1..MaxQty.
MaxQty == 5

(* ----------------------------- constants ------------------------------- *)

\* The divisor of "trail_percent / 100"; also the scale of current_stop_price.
PriceScale == 100

\* float('inf'): above every price.
Inf == 1000000000

None == 0 - 1

\* A leg price that is not a number (a JSON string in the leg dictionary):
\* comparing a float with it raises TypeError.
NotANumber == 0 - 2

\* get_klines_data raising (the exchange cannot be reached).
Unreachable == 0 - 3

\* The websocket manager main.py hands to set_websocket_manager.
websocket_manager == 1

Prices == 1 .. MaxPrice

Quantities == 1 .. MaxQty

\* Symbol strings as callers pass them, in either letter case.
SymbolInputs == {"BTCUSDT", "btcusdt"}

\* Side strings as callers pass them (the REST layer accepts either case).
SideInputs == {"BUY", "SELL", "buy", "sell"}

\* str.upper() on the strings above.
Upper(s) ==
    CASE s = "btcusdt" -> "BTCUSDT"
      [] s = "buy" -> "BUY"
      [] s = "sell" -> "SELL"
      [] OTHER -> s

\* Python truthiness of an Optional[float].
Truthy(x) == x # None /\ x # 0

\* Python "x or d".
PyOr(x, d) == IF Truthy(x) THEN x ELSE d

\* Every id minted so far (uuid4: never reused, unique over the registries).
AllIds ==
    DOMAIN oco_orders \cup DOMAIN bracket_orders
        \cup DOMAIN trailing_stop_orders \cup DOMAIN iceberg_orders

\* The ids the model mints: one order is followed through its life at a time
\* (an iteration of a monitor loop reads and writes its own order only).
OrderIds == {1}

\* The ids minted where two orders share an update.
PairIds == {1, 2}

\* A fresh id.
NewId == Cardinality(AllIds) + 1

\* The least of a non-empty set of ids: the first in insertion order.
First(ids) == CHOOSE k \in ids : \A j \in ids : k <= j

\* What a service call leaves alone besides the registries.
monitoring ==
    <<monitored_prices, _websocket_manager, scheduled, frame, trailing_stop_service>>

(* --------------------- broadcasts and monitor loops -------------------- *)

\* The message _broadcast_order_update sends for _schedule_broadcast(
\* order_type, order_data).
OrderUpdate(order_type, order_data) ==
    [type |-> "ORDER_UPDATE", orderType |-> order_type, order |-> order_data]

\* One iteration of a monitor loop.  before is the order it found, after the
\* order when the body ran through, at_broadcast the order as it stood at
\* the first call of _schedule_broadcast, broadcasts the messages of the
\* calls of _schedule_broadcast in order, type_error whether a trigger
\* comparison raised before any write.  _schedule_broadcast does nothing
\* without a manager; with one, asyncio.create_task queues the message, or
\* raises RuntimeError when no event loop is running.
Iteration(before, after, at_broadcast, broadcasts, type_error, loop_running) ==
    IF type_error
    THEN [order |-> before, scheduled |-> <<>>, raised |-> "TypeError"]
    ELSE IF broadcasts = <<>> \/ _websocket_manager = None
    THEN [order |-> after, scheduled |-> <<>>, raised |-> "None"]
    ELSE IF loop_running
    THEN [order |-> after, scheduled |-> broadcasts, raised |-> "None"]
    ELSE [order |-> at_broadcast, scheduled |-> <<>>, raised |-> "RuntimeError"]

\* The messages queued by the iterations of ids, in insertion order.
RECURSIVE Queued(_, _)
Queued(iterations, ids) ==
    IF ids = {}
    THEN <<>>
    ELSE iterations[First(ids)].scheduled \o Queued(iterations, ids \ {First(ids)})

\* "for order in registry.values()": the iterations run in insertion order
\* and the exception of one ends the loop, the later orders untouched.
Loop(orders, iterations) ==
    LET raising == {id \in DOMAIN orders : iterations[id].raised # "None"}
        ran == IF raising = {}
               THEN DOMAIN orders
               ELSE {id \in DOMAIN orders : id <= First(raising)}
    IN  [orders |-> [id \in DOMAIN orders |->
                        IF id \in ran THEN iterations[id].order ELSE orders[id]],
         scheduled |-> Queued(iterations, ran),
         raised |-> IF raising = {} THEN "None" ELSE iterations[First(raising)].raised]

\* A monitor that is not reached because an earlier one raised.
NotReached(orders, exception) ==
    [orders |-> orders, scheduled |-> <<>>, raised |-> exception]

(* ------------------------------- OCO ----------------------------------- *)

\* The leg dictionaries create_oco_order receives.
OCOLegInputs ==
    [order_type : {"LIMIT"}, price : Prices \cup {None},
     stop_price : {None}, limit_price : {None}]
    \cup
    [order_type : {"STOP_MARKET", "STOP_LIMIT"}, price : {None},
     stop_price : Prices \cup {None}, limit_price : {None}]

OCOLeg(d) ==
    [order_type |-> d.order_type, price |-> d.price, stop_price |-> d.stop_price,
     limit_price |-> d.limit_price, status |-> "PENDING"]

\* The OCOOrder create_oco_order builds.
OCOOrder(symbol, side, quantity, order1, order2) ==
    [symbol |-> Upper(symbol), side |-> Upper(side), quantity |-> quantity,
     order1 |-> OCOLeg(order1), order2 |-> OCOLeg(order2),
     status |-> "ACTIVE", filled_leg |-> None]

create_oco_order(symbol, side, quantity, order1, order2) ==
    /\ oco_orders' = oco_orders @@
           (NewId :> OCOOrder(symbol, side, quantity, order1, order2))
    /\ raised' = "None"
    /\ UNCHANGED <<bracket_orders, trailing_stop_orders, iceberg_orders,
                   monitoring>>

\* _check_leg_trigger raising TypeError: the price it compares with is not a
\* number.
LegRaises(leg, side) ==
    IF leg.order_type = "LIMIT"
    THEN leg.price = NotANumber
    ELSE IF leg.order_type \in {"STOP_MARKET", "STOP_LIMIT"}
    THEN leg.stop_price = NotANumber
    ELSE FALSE

_check_leg_trigger(leg, current_price, side) ==
    IF leg.order_type = "LIMIT"
    THEN IF side = "BUY"
         THEN current_price <= PyOr(leg.price, Inf)
         ELSE current_price >= PyOr(leg.price, 0)
    ELSE IF leg.order_type \in {"STOP_MARKET", "STOP_LIMIT"}
    THEN IF side = "BUY"
         THEN current_price >= PyOr(leg.stop_price, Inf)
         ELSE current_price <= PyOr(leg.stop_price, 0)
    ELSE FALSE


\* OCOStep with the cancellation of the sibling leg left out.
OCOStep_NoCancel(order, symbol, current_price) ==
    IF order.symbol # symbol \/ order.status # "ACTIVE"
    THEN order
    ELSE IF _check_leg_trigger(order.order1, current_price, order.side)
    THEN [order EXCEPT !.order1.status = "FILLED", !.filled_leg = 1,
                       !.status = "FILLED"]
    ELSE IF _check_leg_trigger(order.order2, current_price, order.side)
    THEN [order EXCEPT !.order2.status = "FILLED", !.filled_leg = 2,
                       !.status = "FILLED"]
    ELSE order

\* OCOStep with the second leg tested before the first.
OCOStep_Leg2First(order, symbol, current_price) ==
    IF order.symbol # symbol \/ order.status # "ACTIVE"
    THEN order
    ELSE IF _check_leg_trigger(order.order2, current_price, order.side)
    THEN [order EXCEPT !.order2.status = "FILLED", !.order1.status = "CANCELLED",
                       !.filled_leg = 2, !.status = "FILLED"]
    ELSE IF _check_leg_trigger(order.order1, current_price, order.side)
    THEN [order EXCEPT !.order1.status = "FILLED", !.order2.status = "CANCELLED",
                       !.filled_leg = 1, !.status = "FILLED"]
    ELSE order

\* One iteration of the loop of _monitor_oco_orders: the order afterwards.
OCOStep(order, symbol, current_price) ==
    IF order.symbol # symbol \/ order.status # "ACTIVE"
    THEN order
    ELSE LET leg1_triggered == _check_leg_trigger(order.order1, current_price, order.side)
             leg2_triggered == _check_leg_trigger(order.order2, current_price, order.side)
         IN  IF leg1_triggered
             THEN [order EXCEPT !.order1.status = "FILLED",
                                !.order2.status = "CANCELLED",
                                !.filled_leg = 1,
                                !.status = "FILLED"]
             ELSE IF leg2_triggered
             THEN [order EXCEPT !.order2.status = "FILLED",
                                !.order1.status = "CANCELLED",
                                !.filled_leg = 2,
                                !.status = "FILLED"]
             ELSE order

\* The messages one iteration of the loop of _monitor_oco_orders hands to
\* _schedule_broadcast: one in each of the two filling branches, built from
\* the order after its writes.
OCOBroadcasts(order, id, symbol, current_price) ==
    IF order.symbol # symbol \/ order.status # "ACTIVE"
    THEN <<>>
    ELSE IF _check_leg_trigger(order.order1, current_price, order.side)
    THEN <<OrderUpdate("OCO", [id |-> id, symbol |-> order.symbol,
                               status |-> "FILLED", filled_leg |-> 1])>>
    ELSE IF _check_leg_trigger(order.order2, current_price, order.side)
    THEN <<OrderUpdate("OCO", [id |-> id, symbol |-> order.symbol,
                               status |-> "FILLED", filled_leg |-> 2])>>
    ELSE <<>>

\* Both trigger predicates are computed before the branches: either raising
\* ends the iteration before any write.
OCORaises(order, symbol, current_price) ==
    /\ order.symbol = symbol
    /\ order.status = "ACTIVE"
    /\ LegRaises(order.order1, order.side) \/ LegRaises(order.order2, order.side)

OCOIteration(order, id, symbol, current_price, loop_running) ==
    Iteration(order,
              OCOStep(order, symbol, current_price),
              OCOStep(order, symbol, current_price),
              OCOBroadcasts(order, id, symbol, current_price),
              OCORaises(order, symbol, current_price),
              loop_running)

_monitor_oco_orders(orders, symbol, current_price, loop_running) ==
    Loop(orders,
         [id \in DOMAIN orders |->
             OCOIteration(orders[id], id, symbol, current_price, loop_running)])

(* ------------------------------ bracket -------------------------------- *)

\* The entry dictionaries create_bracket_order receives.
EntryInputs ==
    [order_type : {"MARKET", "LIMIT"}, price : Prices \cup {None}]

BracketLeg(order_type, quantity, price, stop_price, limit_price) ==
    [order_type |-> order_type, quantity |-> quantity, price |-> price,
     stop_price |-> stop_price, limit_price |-> limit_price, status |-> "PENDING"]

Abs(x) == IF x < 0 THEN 0 - x ELSE x


\* RiskReward upside down: risk / reward.
RiskReward_Inverted(entry_order, stop_loss, take_profit) ==
    LET entry_price == IF entry_order.price = None THEN 0 ELSE entry_order.price
        risk == Abs(entry_price - stop_loss.stop_price)
        reward == Abs(take_profit.limit_price - entry_price)
    IN  IF risk > 0 THEN <<risk, reward>> ELSE <<0, 1>>

\* reward / risk, as the pair <<reward, risk>> (0 when risk is 0).
RiskReward(entry_order, stop_loss, take_profit) ==
    LET entry_price == IF entry_order.price = None THEN 0 ELSE entry_order.price
        risk == Abs(entry_price - stop_loss.stop_price)
        reward == Abs(take_profit.limit_price - entry_price)
    IN  IF risk > 0 THEN <<reward, risk>> ELSE <<0, 1>>

\* The BracketOrder create_bracket_order builds.
BracketOrder(symbol, side, quantity, entry_order, stop_loss, take_profit) ==
    [symbol |-> Upper(symbol), side |-> Upper(side), quantity |-> quantity,
     entry_order |-> BracketLeg(entry_order.order_type, quantity,
                                entry_order.price, None, None),
     stop_loss_order |-> BracketLeg("STOP_MARKET", quantity, None,
                                    stop_loss.stop_price, None),
     take_profit_order |-> BracketLeg("LIMIT", quantity, None, None,
                                      take_profit.limit_price),
     risk_reward_ratio |-> RiskReward(entry_order, stop_loss, take_profit),
     entry_filled |-> FALSE, exit_filled |-> FALSE,
     status |-> "ACTIVE"]

create_bracket_order(symbol, side, quantity, entry_order, stop_loss, take_profit) ==
    /\ bracket_orders' = bracket_orders @@
           (NewId :> BracketOrder(symbol, side, quantity, entry_order,
                                  stop_loss, take_profit))
    /\ raised' = "None"
    /\ UNCHANGED <<oco_orders, trailing_stop_orders, iceberg_orders,
                   monitoring>>

_check_entry_trigger(entry, current_price, side) ==
    IF entry.order_type = "MARKET"
    THEN TRUE
    ELSE IF entry.order_type = "LIMIT"
    THEN IF side = "BUY"
         THEN current_price <= PyOr(entry.price, Inf)
         ELSE current_price >= PyOr(entry.price, 0)
    ELSE FALSE


\* _check_stop_trigger with strict comparisons.
_check_stop_trigger_Strict(stop_order, current_price, side) ==
    IF side = "BUY"
    THEN current_price < PyOr(stop_order.stop_price, 0)
    ELSE current_price > PyOr(stop_order.stop_price, Inf)

_check_stop_trigger(stop_order, current_price, side) ==
    IF side = "BUY"
    THEN current_price <= PyOr(stop_order.stop_price, 0)
    ELSE current_price >= PyOr(stop_order.stop_price, Inf)

_check_profit_trigger(profit_order, current_price, side) ==
    IF side = "BUY"
    THEN current_price >= PyOr(profit_order.limit_price, Inf)
    ELSE current_price <= PyOr(profit_order.limit_price, 0)


\* BracketStep with "if" for "elif": the exit triggers are tested in the
\* update that filled the entry.
BracketStep_FallThrough(order, symbol, current_price) ==
    IF order.symbol # symbol \/ order.status = "CANCELLED"
    THEN order
    ELSE LET e == IF ~order.entry_filled
                     /\ _check_entry_trigger(order.entry_order, current_price, order.side)
                  THEN [order EXCEPT !.entry_filled = TRUE,
                                     !.entry_order.status = "FILLED",
                                     !.stop_loss_order.status = "ACTIVE",
                                     !.take_profit_order.status = "ACTIVE",
                                     !.status = "ACTIVE"]
                  ELSE order
         IN  IF e.entry_filled /\ ~e.exit_filled
             THEN IF _check_stop_trigger(e.stop_loss_order, current_price, e.side)
                  THEN [e EXCEPT !.exit_filled = TRUE,
                                 !.stop_loss_order.status = "FILLED",
                                 !.take_profit_order.status = "CANCELLED",
                                 !.status = "FILLED"]
                  ELSE IF _check_profit_trigger(e.take_profit_order, current_price, e.side)
                  THEN [e EXCEPT !.exit_filled = TRUE,
                                 !.take_profit_order.status = "FILLED",
                                 !.stop_loss_order.status = "CANCELLED",
                                 !.status = "FILLED"]
                  ELSE e
             ELSE e

\* BracketStep with the take-profit fill leaving the stop-loss leg ACTIVE.
BracketStep_NoSiblingCancel(order, symbol, current_price) ==
    IF order.symbol # symbol \/ order.status = "CANCELLED"
    THEN order
    ELSE IF ~order.entry_filled
    THEN IF _check_entry_trigger(order.entry_order, current_price, order.side)
         THEN [order EXCEPT !.entry_filled = TRUE,
                            !.entry_order.status = "FILLED",
                            !.stop_loss_order.status = "ACTIVE",
                            !.take_profit_order.status = "ACTIVE",
                            !.status = "ACTIVE"]
         ELSE order
    ELSE IF order.entry_filled /\ ~order.exit_filled
    THEN IF _check_stop_trigger(order.stop_loss_order, current_price, order.side)
         THEN [order EXCEPT !.exit_filled = TRUE,
                            !.stop_loss_order.status = "FILLED",
                            !.take_profit_order.status = "CANCELLED",
                            !.status = "FILLED"]
         ELSE IF _check_profit_trigger(order.take_profit_order, current_price, order.side)
         THEN [order EXCEPT !.exit_filled = TRUE,
                            !.take_profit_order.status = "FILLED",
                            !.status = "FILLED"]
         ELSE order
    ELSE order


\* BracketStep with the take-profit trigger tested before the stop-loss
\* trigger.
BracketStep_ProfitFirst(order, symbol, current_price) ==
    IF order.symbol # symbol \/ order.status = "CANCELLED"
    THEN order
    ELSE IF ~order.entry_filled
    THEN IF _check_entry_trigger(order.entry_order, current_price, order.side)
         THEN [order EXCEPT !.entry_filled = TRUE,
                            !.entry_order.status = "FILLED",
                            !.stop_loss_order.status = "ACTIVE",
                            !.take_profit_order.status = "ACTIVE",
                            !.status = "ACTIVE"]
         ELSE order
    ELSE IF order.entry_filled /\ ~order.exit_filled
    THEN IF _check_profit_trigger(order.take_profit_order, current_price, order.side)
         THEN [order EXCEPT !.exit_filled = TRUE,
                            !.take_profit_order.status = "FILLED",
                            !.stop_loss_order.status = "CANCELLED",
                            !.status = "FILLED"]
         ELSE IF _check_stop_trigger(order.stop_loss_order, current_price, order.side)
         THEN [order EXCEPT !.exit_filled = TRUE,
                            !.stop_loss_order.status = "FILLED",
                            !.take_profit_order.status = "CANCELLED",
                            !.status = "FILLED"]
         ELSE order
    ELSE order

\* One iteration of the loop of _monitor_bracket_orders: the order afterwards.
BracketStep(order, symbol, current_price) ==
    IF order.symbol # symbol \/ order.status = "CANCELLED"
    THEN order
    ELSE IF ~order.entry_filled
    THEN IF _check_entry_trigger(order.entry_order, current_price, order.side)
         THEN [order EXCEPT !.entry_filled = TRUE,
                            !.entry_order.status = "FILLED",
                            !.stop_loss_order.status = "ACTIVE",
                            !.take_profit_order.status = "ACTIVE",
                            !.status = "ACTIVE"]
         ELSE order
    ELSE IF order.entry_filled /\ ~order.exit_filled
    THEN IF _check_stop_trigger(order.stop_loss_order, current_price, order.side)
         THEN [order EXCEPT !.exit_filled = TRUE,
                            !.stop_loss_order.status = "FILLED",
                            !.take_profit_order.status = "CANCELLED",
                            !.status = "FILLED"]
         ELSE IF _check_profit_trigger(order.take_profit_order, current_price, order.side)
         THEN [order EXCEPT !.exit_filled = TRUE,
                            !.take_profit_order.status = "FILLED",
                            !.stop_loss_order.status = "CANCELLED",
                            !.status = "FILLED"]
         ELSE order
    ELSE order

\* The messages one iteration of the loop of _monitor_bracket_orders hands
\* to _schedule_broadcast: one in the entry branch, one in the stop-loss
\* branch (which ends the iteration), one in the take-profit branch.
BracketBroadcasts(order, id, symbol, current_price) ==
    IF order.symbol # symbol \/ order.status = "CANCELLED"
    THEN <<>>
    ELSE IF ~order.entry_filled
    THEN IF _check_entry_trigger(order.entry_order, current_price, order.side)
         THEN <<OrderUpdate("BRACKET", [id |-> id, symbol |-> order.symbol,
                                        status |-> "ACTIVE", entry_filled |-> TRUE])>>
         ELSE <<>>
    ELSE IF order.entry_filled /\ ~order.exit_filled
    THEN IF _check_stop_trigger(order.stop_loss_order, current_price, order.side)
         THEN <<OrderUpdate("BRACKET", [id |-> id, symbol |-> order.symbol,
                                        status |-> "FILLED", exit_type |-> "stop_loss"])>>
         ELSE IF _check_profit_trigger(order.take_profit_order, current_price, order.side)
         THEN <<OrderUpdate("BRACKET", [id |-> id, symbol |-> order.symbol,
                                        status |-> "FILLED", exit_type |-> "take_profit"])>>
         ELSE <<>>
    ELSE <<>>

BracketIteration(order, id, symbol, current_price, loop_running) ==
    Iteration(order,
              BracketStep(order, symbol, current_price),
              BracketStep(order, symbol, current_price),
              BracketBroadcasts(order, id, symbol, current_price),
              FALSE,
              loop_running)

_monitor_bracket_orders(orders, symbol, current_price, loop_running) ==
    Loop(orders,
         [id \in DOMAIN orders |->
             BracketIteration(orders[id], id, symbol, current_price, loop_running)])

(* --------------------------- trailing stop ----------------------------- *)

\* One trail amount and one trail percent; callers give at least one of them.
TrailAmounts == {1}

TrailPercents == {50}

\* The (trail_amount, trail_percent) pairs create_trailing_stop_order receives.
TrailInputs ==
    {t \in [trail_amount : TrailAmounts \cup {None},
            trail_percent : TrailPercents \cup {None}] :
        Truthy(t.trail_amount) \/ Truthy(t.trail_percent)}

\* The TrailingStopOrder create_trailing_stop_order builds.
TrailingStopOrder(symbol, side, quantity, trail_amount, trail_percent, activation_price, current_price) ==
    [symbol |-> Upper(symbol), side |-> Upper(side), quantity |-> quantity,
     trail_amount |-> trail_amount,
     trail_percent |-> trail_percent,
     activation_price |-> activation_price,
     peak_price |-> current_price,
     current_stop_price |-> current_price * PriceScale,
     is_activated |-> (activation_price = None),
     status |-> "ACTIVE"]

create_trailing_stop_order(symbol, side, quantity, trail_amount, trail_percent, activation_price, current_price) ==
    /\ trailing_stop_orders' = trailing_stop_orders @@
           (NewId :> TrailingStopOrder(symbol, side, quantity, trail_amount,
                                       trail_percent, activation_price, current_price))
    /\ raised' = "None"
    /\ UNCHANGED <<oco_orders, bracket_orders, iceberg_orders, monitoring>>

\* The stop price (in hundredths) the monitor computes from a new peak: the
\* percent trail when set, else the amount trail, else the stop is left alone.
TrailedStop(order, current_price) ==
    IF order.side = "BUY"
    THEN IF Truthy(order.trail_percent)
         THEN current_price * (PriceScale - order.trail_percent)
         ELSE IF Truthy(order.trail_amount)
         THEN (current_price - order.trail_amount) * PriceScale
         ELSE order.current_stop_price
    ELSE IF Truthy(order.trail_percent)
         THEN current_price * (PriceScale + order.trail_percent)
         ELSE IF Truthy(order.trail_amount)
         THEN (current_price + order.trail_amount) * PriceScale
         ELSE order.current_stop_price


\* TrailingActivate with strict comparisons: a price equal to the activation
\* price does not activate.
TrailingActivate_Strict(order, current_price) ==
    IF ~order.is_activated /\ Truthy(order.activation_price)
    THEN IF (order.side = "BUY" /\ current_price > order.activation_price)
            \/ (order.side # "BUY" /\ current_price < order.activation_price)
         THEN [order EXCEPT !.is_activated = TRUE,
                            !.peak_price = current_price,
                            !.current_stop_price = TrailedStop(order, current_price)]
         ELSE order
    ELSE order

\* "Check activation": the order after the first block of the loop body.
TrailingActivate(order, current_price) ==
    IF ~order.is_activated /\ Truthy(order.activation_price)
    THEN IF (order.side = "BUY" /\ current_price >= order.activation_price)
            \/ (order.side # "BUY" /\ current_price <= order.activation_price)
         THEN [order EXCEPT !.is_activated = TRUE,
                            !.peak_price = current_price,
                            !.current_stop_price = TrailedStop(order, current_price)]
         ELSE order
    ELSE order


\* TrailingRatchet following the price both ways (the peak is overwritten on
\* every move).
TrailingRatchet_AnyMove(order, current_price) ==
    IF current_price # order.peak_price
    THEN [order EXCEPT !.peak_price = current_price,
                       !.current_stop_price = TrailedStop(order, current_price)]
    ELSE order

\* "Update peak price": the order after the ratchet of an activated order.
TrailingRatchet(order, current_price) ==
    IF (order.side = "BUY" /\ current_price > order.peak_price)
       \/ (order.side # "BUY" /\ current_price < order.peak_price)
    THEN [order EXCEPT !.peak_price = current_price,
                       !.current_stop_price = TrailedStop(order, current_price)]
    ELSE order

\* "Check if stop triggered", on the order as the ratchet left it.
StopTriggered(order, current_price) ==
    IF order.side = "BUY"
    THEN current_price * PriceScale <= order.current_stop_price
    ELSE current_price * PriceScale >= order.current_stop_price


\* TrailingStep without the filter on the status.
TrailingStep_AnyStatus(order, symbol, current_price) ==
    IF order.symbol # symbol
    THEN order
    ELSE LET a == TrailingActivate(order, current_price)
         IN  IF a.is_activated
             THEN LET r == TrailingRatchet(a, current_price)
                  IN  IF StopTriggered(r, current_price)
                      THEN [r EXCEPT !.status = "FILLED"]
                      ELSE r
             ELSE a

\* One iteration of the loop of _monitor_trailing_stops: the order afterwards.
TrailingStep(order, symbol, current_price) ==
    IF order.symbol # symbol \/ order.status # "ACTIVE"
    THEN order
    ELSE LET a == TrailingActivate(order, current_price)
         IN  IF a.is_activated
             THEN LET r == TrailingRatchet(a, current_price)
                  IN  IF StopTriggered(r, current_price)
                      THEN [r EXCEPT !.status = "FILLED"]
                      ELSE r
             ELSE a

\* The order after activation and ratchet, before the trigger test: the
\* order as "Broadcast if stop price changed" finds it.
TrailingMoved(order, current_price) ==
    LET a == TrailingActivate(order, current_price)
    IN  IF a.is_activated THEN TrailingRatchet(a, current_price) ELSE a

\* The messages one iteration of the loop of _monitor_trailing_stops hands
\* to _schedule_broadcast: the new stop when it differs from old_stop_price,
\* then the trigger.
TrailingBroadcasts(order, id, symbol, current_price) ==
    IF order.symbol # symbol \/ order.status # "ACTIVE"
    THEN <<>>
    ELSE LET r == TrailingMoved(order, current_price)
         IN  IF r.is_activated
             THEN (IF order.current_stop_price # r.current_stop_price
                   THEN <<OrderUpdate("TRAILING_STOP",
                                      [id |-> id, symbol |-> order.symbol,
                                       current_stop_price |-> r.current_stop_price,
                                       peak_price |-> r.peak_price])>>
                   ELSE <<>>)
                  \o
                  (IF StopTriggered(r, current_price)
                   THEN <<OrderUpdate("TRAILING_STOP",
                                      [id |-> id, symbol |-> order.symbol,
                                       status |-> "FILLED", triggered |-> TRUE])>>
                   ELSE <<>>)
             ELSE <<>>

\* The order at the first call of _schedule_broadcast: moved and not yet
\* tested when the stop changed, else FILLED.
TrailingAtBroadcast(order, symbol, current_price) ==
    IF order.current_stop_price # TrailingMoved(order, current_price).current_stop_price
    THEN TrailingMoved(order, current_price)
    ELSE TrailingStep(order, symbol, current_price)

TrailingIteration(order, id, symbol, current_price, loop_running) ==
    Iteration(order,
              TrailingStep(order, symbol, current_price),
              TrailingAtBroadcast(order, symbol, current_price),
              TrailingBroadcasts(order, id, symbol, current_price),
              FALSE,
              loop_running)

_monitor_trailing_stops(orders, symbol, current_price, loop_running) ==
    Loop(orders,
         [id \in DOMAIN orders |->
             TrailingIteration(orders[id], id, symbol, current_price, loop_running)])

(* ------------------------------ iceberg -------------------------------- *)


\* IcebergSlices with the remainder slice left out.
IcebergSlices_NoRemainder(total_quantity, display_quantity) ==
    [i \in 1 .. (total_quantity \div display_quantity) |->
        [quantity |-> display_quantity, status |-> "PENDING"]]

\* The slices create_iceberg_order builds.
IcebergSlices(total_quantity, display_quantity) ==
    LET num_slices == total_quantity \div display_quantity
        remaining == total_quantity % display_quantity
    IN  [i \in 1 .. num_slices |-> [quantity |-> display_quantity, status |-> "PENDING"]]
        \o (IF remaining > 0
            THEN <<[quantity |-> remaining, status |-> "PENDING"]>>
            ELSE <<>>)

\* The IcebergOrder create_iceberg_order builds.
IcebergOrder(symbol, side, total_quantity, display_quantity) ==
    [symbol |-> Upper(symbol), side |-> Upper(side),
     total_quantity |-> total_quantity,
     display_quantity |-> display_quantity,
     executed_quantity |-> 0,
     current_slice |-> 0,
     slices |-> IcebergSlices(total_quantity, display_quantity),
     status |-> "ACTIVE"]

create_iceberg_order(symbol, side, total_quantity, display_quantity) ==
    /\ iceberg_orders' = iceberg_orders @@
           (NewId :> IcebergOrder(symbol, side, total_quantity, display_quantity))
    /\ raised' = "None"
    /\ UNCHANGED <<oco_orders, bracket_orders, trailing_stop_orders, monitoring>>


\* IcebergStep filling the slice without advancing current_slice.
IcebergStep_NoAdvance(order, symbol, current_price) ==
    IF order.symbol # symbol \/ order.status # "ACTIVE"
    THEN order
    ELSE IF order.current_slice < Len(order.slices)
            /\ order.slices[order.current_slice + 1].status = "PENDING"
    THEN [order EXCEPT
            !.slices[order.current_slice + 1].status = "FILLED",
            !.executed_quantity = @ + order.slices[order.current_slice + 1].quantity,
            !.status = IF order.current_slice + 1 >= Len(order.slices)
                       THEN "FILLED" ELSE "PARTIALLY_FILLED"]
    ELSE order

\* One iteration of the loop of _monitor_iceberg_orders: the order afterwards.
\* current_slice counts from 0, the sequence slices from 1.
IcebergStep(order, symbol, current_price) ==
    IF order.symbol # symbol \/ order.status # "ACTIVE"
    THEN order
    ELSE IF order.current_slice < Len(order.slices)
            /\ order.slices[order.current_slice + 1].status = "PENDING"
    THEN [order EXCEPT
            !.slices[order.current_slice + 1].status = "FILLED",
            !.executed_quantity = @ + order.slices[order.current_slice + 1].quantity,
            !.current_slice = @ + 1,
            !.status = IF order.current_slice + 1 >= Len(order.slices)
                       THEN "FILLED" ELSE "PARTIALLY_FILLED"]
    ELSE order

\* The loop of _monitor_iceberg_orders calls _schedule_broadcast nowhere.
IcebergIteration(order, id, symbol, current_price, loop_running) ==
    Iteration(order,
              IcebergStep(order, symbol, current_price),
              IcebergStep(order, symbol, current_price),
              <<>>,
              FALSE,
              loop_running)

_monitor_iceberg_orders(orders, symbol, current_price, loop_running) ==
    Loop(orders,
         [id \in DOMAIN orders |->
             IcebergIteration(orders[id], id, symbol, current_price, loop_running)])

(* ----------------------- price update and cancel ----------------------- *)

\* The four registries as one value.
Registries ==
    [oco |-> oco_orders, bracket |-> bracket_orders,
     trailing |-> trailing_stop_orders, iceberg |-> iceberg_orders]

\* The body of update_market_price after the store into monitored_prices, on
\* the registries r: the four monitors in turn, the exception of one leaving
\* the later ones out.  loop_running: the caller runs on an event loop.
Monitored(r, symbol, price, loop_running) ==
    LET oco == _monitor_oco_orders(r.oco, symbol, price, loop_running)
        bracket == IF oco.raised = "None"
                   THEN _monitor_bracket_orders(r.bracket, symbol, price, loop_running)
                   ELSE NotReached(r.bracket, oco.raised)
        trailing == IF bracket.raised = "None"
                    THEN _monitor_trailing_stops(r.trailing, symbol, price, loop_running)
                    ELSE NotReached(r.trailing, bracket.raised)
        iceberg == IF trailing.raised = "None"
                   THEN _monitor_iceberg_orders(r.iceberg, symbol, price, loop_running)
                   ELSE NotReached(r.iceberg, trailing.raised)
    IN  [oco |-> oco.orders, bracket |-> bracket.orders,
         trailing |-> trailing.orders, iceberg |-> iceberg.orders,
         scheduled |-> oco.scheduled \o bracket.scheduled \o trailing.scheduled
                          \o iceberg.scheduled,
         raised |-> iceberg.raised]

\* The registries r left as they are, no monitor run.
Unmonitored(r) ==
    [oco |-> r.oco, bracket |-> r.bracket, trailing |-> r.trailing,
     iceberg |-> r.iceberg, scheduled |-> <<>>, raised |-> "None"]

\* The registries and the task queue as the monitors m left them.
Store(m) ==
    /\ oco_orders' = m.oco
    /\ bracket_orders' = m.bracket
    /\ trailing_stop_orders' = m.trailing
    /\ iceberg_orders' = m.iceberg
    /\ scheduled' = scheduled \o m.scheduled

\* A caller either runs on the event loop (the ticker stream, the REST
\* handlers) or does not (a synchronous caller).
update_market_price(symbol, price) ==
    \E loop_running \in BOOLEAN :
        LET m == Monitored(Registries, symbol, price, loop_running)
        IN  /\ monitored_prices' = [monitored_prices EXCEPT ![symbol] = price]
            /\ Store(m)
            /\ raised' = m.raised
            /\ UNCHANGED <<_websocket_manager, frame, trailing_stop_service>>

set_websocket_manager(manager) ==
    /\ _websocket_manager' = manager
    /\ UNCHANGED <<oco_orders, bracket_orders, trailing_stop_orders, iceberg_orders,
                   monitored_prices, scheduled, raised, frame,
                   trailing_stop_service>>

\* The event loop runs the first queued task: _broadcast_order_update sends
\* the message with broadcast_to_all, and an exception of the send is caught
\* and printed.  Either way the task is done and nothing else has changed.
_broadcast_order_update ==
    /\ scheduled # <<>>
    /\ scheduled' = Tail(scheduled)
    /\ UNCHANGED <<oco_orders, bracket_orders, trailing_stop_orders, iceberg_orders,
                   monitored_prices, _websocket_manager, raised, frame,
                   trailing_stop_service>>


\* Cancelled with the order taken out of the registry.
Cancelled_Deleted(registry, order_id) ==
    [id \in DOMAIN registry \ {order_id} |-> registry[id]]

\* The registry after cancel_order found the id in it.
Cancelled(registry, order_id) ==
    [registry EXCEPT ![order_id].status = "CANCELLED"]

cancel_order(order_id) ==
    /\ UNCHANGED monitoring
    /\ raised' = "None"
    /\ IF order_id \in DOMAIN oco_orders
       THEN /\ oco_orders' = Cancelled(oco_orders, order_id)
            /\ UNCHANGED <<bracket_orders, trailing_stop_orders, iceberg_orders>>
       ELSE IF order_id \in DOMAIN bracket_orders
       THEN /\ bracket_orders' = Cancelled(bracket_orders, order_id)
            /\ UNCHANGED <<oco_orders, trailing_stop_orders, iceberg_orders>>
       ELSE IF order_id \in DOMAIN trailing_stop_orders
       THEN /\ trailing_stop_orders' = Cancelled(trailing_stop_orders, order_id)
            /\ UNCHANGED <<oco_orders, bracket_orders, iceberg_orders>>
       ELSE IF order_id \in DOMAIN iceberg_orders
       THEN /\ iceberg_orders' = Cancelled(iceberg_orders, order_id)
            /\ UNCHANGED <<oco_orders, bracket_orders, trailing_stop_orders>>
       ELSE UNCHANGED <<oco_orders, bracket_orders, trailing_stop_orders,
                        iceberg_orders>>

(* ---------------------------- REST handlers ---------------------------- *)


(* ------------- update_market_price, statement by statement ------------- *)

\* Idle with a second call, a cancel or a task free to start while an
\* update_market_price call is suspended half way.
Idle_Suspended == TRUE

\* No update_market_price call is on the stack.  update_market_price and the
\* monitors are plain functions without an await, and their callers (the
\* ticker stream, the REST handlers) are coroutines of the one event loop:
\* no other call and no task starts before the call has returned.
Idle == frame = <<>>

\* "registry.values()": the ids in insertion order.
RECURSIVE Values(_)
Values(ids) ==
    IF ids = {} THEN <<>> ELSE <<First(ids)>> \o Values(ids \ {First(ids)})

\* The call enters: the store into monitored_prices, and the loop of
\* _monitor_oco_orders about to start.  registries and scheduled keep the
\* registries and the task queue as the call found them.
EnterUpdateMarketPrice ==
    /\ Idle
    /\ \E symbol \in SymbolInputs, price \in Prices, loop_running \in BOOLEAN :
           /\ monitored_prices' = [monitored_prices EXCEPT ![symbol] = price]
           /\ frame' = <<[symbol |-> symbol, price |-> price,
                          loop_running |-> loop_running,
                          pc |-> "for", values |-> Values(DOMAIN oco_orders),
                          leg1_triggered |-> FALSE, leg2_triggered |-> FALSE,
                          registries |-> Registries, scheduled |-> scheduled]>>
    /\ UNCHANGED <<oco_orders, bracket_orders, trailing_stop_orders, iceberg_orders,
                   _websocket_manager, scheduled, raised, trailing_stop_service>>

\* The head of an iteration of _monitor_oco_orders: the filter on symbol and
\* status, then the reads leg1_triggered and leg2_triggered.
ReadOCOTriggers ==
    /\ frame # <<>>
    /\ frame[1].pc = "for"
    /\ frame[1].values # <<>>
    /\ LET f == frame[1]
           order == oco_orders[Head(f.values)]
       IN  IF order.symbol # f.symbol \/ order.status # "ACTIVE"
           THEN /\ frame' = <<[f EXCEPT !.values = Tail(@)]>>
                /\ UNCHANGED raised
           ELSE IF LegRaises(order.order1, order.side) \/ LegRaises(order.order2, order.side)
           THEN /\ frame' = <<>>
                /\ raised' = "TypeError"
           ELSE /\ frame' = <<[f EXCEPT
                       !.pc = "if",
                       !.leg1_triggered = _check_leg_trigger(order.order1, f.price, order.side),
                       !.leg2_triggered = _check_leg_trigger(order.order2, f.price, order.side)]>>
                /\ UNCHANGED raised
    /\ UNCHANGED <<oco_orders, bracket_orders, trailing_stop_orders, iceberg_orders,
                   monitored_prices, _websocket_manager, scheduled,
                   trailing_stop_service>>

\* The rest of the iteration: the writes of the branch the two reads select,
\* and its _schedule_broadcast.
WriteOCOFill ==
    /\ frame # <<>>
    /\ frame[1].pc = "if"
    /\ LET f == frame[1]
           id == Head(f.values)
           order == oco_orders[id]
           filled == IF f.leg1_triggered
                     THEN [order EXCEPT !.order1.status = "FILLED",
                                        !.order2.status = "CANCELLED",
                                        !.filled_leg = 1,
                                        !.status = "FILLED"]
                     ELSE IF f.leg2_triggered
                     THEN [order EXCEPT !.order2.status = "FILLED",
                                        !.order1.status = "CANCELLED",
                                        !.filled_leg = 2,
                                        !.status = "FILLED"]
                     ELSE order
           broadcasts == IF f.leg1_triggered \/ f.leg2_triggered
                         THEN <<OrderUpdate("OCO", [id |-> id, symbol |-> filled.symbol,
                                                    status |-> filled.status,
                                                    filled_leg |-> filled.filled_leg])>>
                         ELSE <<>>
           iteration == Iteration(order, filled, filled, broadcasts, FALSE, f.loop_running)
       IN  /\ oco_orders' = [oco_orders EXCEPT ![id] = iteration.order]
           /\ scheduled' = scheduled \o iteration.scheduled
           /\ IF iteration.raised = "None"
              THEN /\ frame' = <<[f EXCEPT !.pc = "for", !.values = Tail(@)]>>
                   /\ UNCHANGED raised
              ELSE /\ frame' = <<>>
                   /\ raised' = iteration.raised
    /\ UNCHANGED <<bracket_orders, trailing_stop_orders, iceberg_orders,
                   monitored_prices, _websocket_manager, trailing_stop_service>>

\* The loop of _monitor_oco_orders is through: the other three monitors
\* run, and the call returns or raises.
LeaveUpdateMarketPrice ==
    /\ frame # <<>>
    /\ frame[1].pc = "for"
    /\ frame[1].values = <<>>
    /\ LET f == frame[1]
           m == Monitored([Registries EXCEPT !.oco = << >>], f.symbol, f.price,
                          f.loop_running)
       IN  /\ bracket_orders' = m.bracket
           /\ trailing_stop_orders' = m.trailing
           /\ iceberg_orders' = m.iceberg
           /\ scheduled' = scheduled \o m.scheduled
           /\ raised' = m.raised
    /\ frame' = <<>>
    /\ UNCHANGED <<oco_orders, monitored_prices, _websocket_manager,
                   trailing_stop_service>>


(* ------------------------- TrailingStopService ------------------------- *)

\* The _monitor_loop tasks start may create in the model.
MaxLoops == 3

\* _error_sleep_max: the ceiling of the backoff, in seconds.
ErrorSleepMax == 30

\* TrailingStopService.__init__: not running, the backoff at 1 second, and
\* no _monitor_loop task yet.  A task is the place it has reached: "while"
\* (about to test self.running), "check" (inside "async with
\* self._loop_lock", awaiting _check_trailing_stops), "sleep" (awaiting
\* asyncio.sleep after a round or because the lock was taken), "backoff"
\* (awaiting the sleep of the except branch) or "done" (returned).
TrailingStopService ==
    [running |-> FALSE, _error_sleep |-> 1, tasks |-> <<>>]

\* self._loop_lock.locked(): a task is inside "async with self._loop_lock".
Locked ==
    \E i \in 1 .. Len(trailing_stop_service.tasks) :
        trailing_stop_service.tasks[i] = "check"

\* The _monitor_loop tasks that have not returned.
Alive ==
    {i \in 1 .. Len(trailing_stop_service.tasks) :
        trailing_stop_service.tasks[i] # "done"}

registries == <<oco_orders, bracket_orders, trailing_stop_orders, iceberg_orders>>

\* TrailingStopService.start.
start ==
    /\ trailing_stop_service' =
          IF trailing_stop_service.running
          THEN trailing_stop_service
          ELSE [trailing_stop_service EXCEPT !.running = TRUE,
                                             !.tasks = Append(@, "while")]
    /\ UNCHANGED <<registries, monitored_prices, _websocket_manager, scheduled,
                   raised, frame>>

\* TrailingStopService.stop.
stop ==
    /\ trailing_stop_service' = [trailing_stop_service EXCEPT !.running = FALSE]
    /\ UNCHANGED <<registries, monitored_prices, _websocket_manager, scheduled,
                   raised, frame>>

\* The task i of _monitor_loop runs from one await to the next.
_monitor_loop(i) ==
    /\ i \in Alive
    /\ LET pc == trailing_stop_service.tasks[i]
       IN  \/ /\ pc = "while"
              /\ trailing_stop_service' =
                    [trailing_stop_service EXCEPT !.tasks[i] =
                        IF ~trailing_stop_service.running THEN "done"
                        ELSE IF Locked THEN "sleep"
                        ELSE "check"]
           \/ /\ pc = "check"
              /\ \/ trailing_stop_service' =
                       [trailing_stop_service EXCEPT !.tasks[i] = "sleep",
                                                     !._error_sleep = 1]
                 \/ trailing_stop_service' =
                       [trailing_stop_service EXCEPT !.tasks[i] = "backoff"]
           \/ /\ pc = "sleep"
              /\ trailing_stop_service' =
                    [trailing_stop_service EXCEPT !.tasks[i] = "while"]
           \/ /\ pc = "backoff"
              /\ trailing_stop_service' =
                    [trailing_stop_service EXCEPT
                        !.tasks[i] = "while",
                        !._error_sleep = IF @ * 2 < ErrorSleepMax
                                         THEN @ * 2 ELSE ErrorSleepMax]
    /\ UNCHANGED <<registries, monitored_prices, _websocket_manager, scheduled,
                   raised, frame>>

\* Side strings of a request: the valid ones and one that is neither.
RequestSides == SideInputs \cup {"HOLD"}

\* What binance_service.get_klines_data gives a handler: a list whose first
\* close is a price, the empty list (None), or an exception (Unreachable).
KlinesOutcomes == Prices \cup {None, Unreachable}

\* The HTTPExceptions of the handlers: status code and detail.
InvalidSide == "400 Order side must be 'BUY' or 'SELL'"

NoTrail == "400 Must specify either trail_amount or trail_percent"

DisplayExceedsTotal == "400 Display quantity cannot exceed total quantity"

NotFound == "404 Order not found"

NoMarketPrice == "503 Unable to fetch market price"

Failed == "500 Failed to create order"

\* The validation errors: status 400.
ValidationErrors == {InvalidSide, NoTrail, DisplayExceedsTotal}

\* A handler ending in HTTPException(status) before it wrote anything.
Rejected(status) ==
    [raised |-> status, monitored |-> Unmonitored(Registries),
     symbol |-> "", price |-> None]

\* A handler that called the service, and update_market_price(symbol, price)
\* when it had a price: monitored is what the monitors left, status how the
\* handler ended.
Served(monitored, symbol, price, status) ==
    [raised |-> status, monitored |-> monitored, symbol |-> symbol, price |-> price]

\* The state a handler leaves behind, from what it did.
Respond(handled) ==
    /\ Store(handled.monitored)
    /\ monitored_prices' = IF handled.price = None
                           THEN monitored_prices
                           ELSE [monitored_prices EXCEPT ![handled.symbol] = handled.price]
    /\ raised' = handled.raised
    /\ UNCHANGED <<_websocket_manager, frame, trailing_stop_service>>

\* POST /advanced-order/oco.  The HTTPException(400) of the side check is
\* raised inside the try, whose only handler is "except Exception": it is
\* raised again as HTTPException(500).  An exception of the price fetch or
\* of update_market_price is passed over.
api_create_oco_order(order, klines) ==
    IF Upper(order.side) \notin {"BUY", "SELL"}
    THEN Rejected(Failed)
    ELSE LET created == [Registries EXCEPT !.oco = @ @@
                            (NewId :> OCOOrder(order.symbol, order.side, order.quantity,
                                               order.order1, order.order2))]
         IN  IF klines \in Prices
             THEN Served(Monitored(created, Upper(order.symbol), klines, TRUE),
                         Upper(order.symbol), klines, "None")
             ELSE Served(Unmonitored(created), Upper(order.symbol), None, "None")

\* POST /advanced-order/bracket.  A MARKET entry takes the fetched close as
\* its price; update_market_price runs when a price was fetched.
api_create_bracket_order(order, klines) ==
    IF Upper(order.side) \notin {"BUY", "SELL"}
    THEN Rejected(InvalidSide)
    ELSE IF order.entry_order.order_type = "MARKET" /\ klines = Unreachable
    THEN Rejected(NoMarketPrice)
    ELSE LET current_price == IF order.entry_order.order_type = "MARKET"
                                 /\ klines \in Prices
                              THEN klines ELSE None
             entry_order == IF current_price # None
                            THEN [order.entry_order EXCEPT !.price = current_price]
                            ELSE order.entry_order
             created == [Registries EXCEPT !.bracket = @ @@
                            (NewId :> BracketOrder(order.symbol, order.side,
                                                   order.quantity, entry_order,
                                                   order.stop_loss, order.take_profit))]
             m == IF Truthy(current_price)
                  THEN Monitored(created, Upper(order.symbol), current_price, TRUE)
                  ELSE Unmonitored(created)
         IN  Served(m, Upper(order.symbol), current_price,
                    IF m.raised = "None" THEN "None" ELSE Failed)


\* api_create_trailing_stop_order asking for exactly one of trail_amount and
\* trail_percent: a request that gives both is rejected too.
api_create_trailing_stop_order_ExactlyOne(order, klines) ==
    IF Upper(order.side) \notin {"BUY", "SELL"}
    THEN Rejected(InvalidSide)
    ELSE IF Truthy(order.trail_amount) <=> Truthy(order.trail_percent)
    THEN Rejected(NoTrail)
    ELSE IF klines \notin Prices
    THEN Rejected(NoMarketPrice)
    ELSE LET created == [Registries EXCEPT !.trailing = @ @@
                            (NewId :> TrailingStopOrder(order.symbol, order.side,
                                          order.quantity, order.trail_amount,
                                          order.trail_percent, order.activation_price,
                                          klines))]
             m == Monitored(created, Upper(order.symbol), klines, TRUE)
         IN  Served(m, Upper(order.symbol), klines,
                    IF m.raised = "None" THEN "None" ELSE Failed)

\* POST /advanced-order/trailing-stop.  The order is created at the fetched
\* close, and update_market_price runs at that price.
api_create_trailing_stop_order(order, klines) ==
    IF Upper(order.side) \notin {"BUY", "SELL"}
    THEN Rejected(InvalidSide)
    ELSE IF ~Truthy(order.trail_amount) /\ ~Truthy(order.trail_percent)
    THEN Rejected(NoTrail)
    ELSE IF klines \notin Prices
    THEN Rejected(NoMarketPrice)
    ELSE LET created == [Registries EXCEPT !.trailing = @ @@
                            (NewId :> TrailingStopOrder(order.symbol, order.side,
                                          order.quantity, order.trail_amount,
                                          order.trail_percent, order.activation_price,
                                          klines))]
             m == Monitored(created, Upper(order.symbol), klines, TRUE)
         IN  Served(m, Upper(order.symbol), klines,
                    IF m.raised = "None" THEN "None" ELSE Failed)


\* api_create_iceberg_order without the check of the two quantities.
api_create_iceberg_order_Unchecked(order, klines) ==
    IF Upper(order.side) \notin {"BUY", "SELL"}
    THEN Rejected(InvalidSide)
    ELSE LET created == [Registries EXCEPT !.iceberg = @ @@
                            (NewId :> IcebergOrder(order.symbol, order.side,
                                                   order.total_quantity,
                                                   order.display_quantity))]
         IN  IF klines \in Prices
             THEN Served(Monitored(created, Upper(order.symbol), klines, TRUE),
                         Upper(order.symbol), klines, "None")
             ELSE Served(Unmonitored(created), Upper(order.symbol), None, "None")

\* POST /advanced-order/iceberg.  Both checks come before the call of the
\* service, which builds the slices.
api_create_iceberg_order(order, klines) ==
    IF Upper(order.side) \notin {"BUY", "SELL"}
    THEN Rejected(InvalidSide)
    ELSE IF order.display_quantity > order.total_quantity
    THEN Rejected(DisplayExceedsTotal)
    ELSE LET created == [Registries EXCEPT !.iceberg = @ @@
                            (NewId :> IcebergOrder(order.symbol, order.side,
                                                   order.total_quantity,
                                                   order.display_quantity))]
         IN  IF klines \in Prices
             THEN Served(Monitored(created, Upper(order.symbol), klines, TRUE),
                         Upper(order.symbol), klines, "None")
             ELSE Served(Unmonitored(created), Upper(order.symbol), None, "None")

\* DELETE /advanced-order/{order_id}.
cancel_advanced_order(order_id) ==
    IF order_id \in AllIds
    THEN cancel_order(order_id)
    ELSE Respond(Rejected(NotFound))

(* --------------------------- specifications ---------------------------- *)

\* AdvancedOrdersService.__init__ and OrderMonitoringService.__init__.
Init ==
    /\ oco_orders = << >>
    /\ bracket_orders = << >>
    /\ trailing_stop_orders = << >>
    /\ iceberg_orders = << >>
    /\ monitored_prices = [s \in SymbolInputs |-> None]
    /\ _websocket_manager = None
    /\ scheduled = <<>>
    /\ raised = "None"
    /\ frame = <<>>
    /\ trailing_stop_service = TrailingStopService

CreateOCO ==
    /\ NewId \in OrderIds
    /\ \E symbol \in SymbolInputs, side \in SideInputs,
          order1 \in OCOLegInputs, order2 \in OCOLegInputs :
           create_oco_order(symbol, side, 1, order1, order2)

CreateBracket ==
    /\ NewId \in OrderIds
    /\ \E symbol \in SymbolInputs, side \in SideInputs, entry_order \in EntryInputs,
          stop_price \in Prices, limit_price \in Prices :
           create_bracket_order(symbol, side, 1, entry_order,
                                [stop_price |-> stop_price],
                                [limit_price |-> limit_price])

CreateTrailingStop ==
    /\ NewId \in OrderIds
    /\ \E symbol \in SymbolInputs, side \in SideInputs, t \in TrailInputs,
          activation_price \in Prices \cup {None}, current_price \in Prices :
           create_trailing_stop_order(symbol, side, 1, t.trail_amount, t.trail_percent,
                                      activation_price, current_price)

CreateIceberg ==
    /\ NewId \in OrderIds
    /\ \E symbol \in SymbolInputs, side \in SideInputs,
          total_quantity \in Quantities, display_quantity \in Quantities :
           /\ display_quantity <= total_quantity
           /\ create_iceberg_order(symbol, side, total_quantity, display_quantity)

UpdateMarketPrice ==
    \E symbol \in SymbolInputs, price \in Prices :
        update_market_price(symbol, price)

CancelOrder ==
    \E order_id \in OrderIds : cancel_order(order_id)

Next ==
    \/ CreateOCO
    \/ CreateBracket
    \/ CreateTrailingStop
    \/ CreateIceberg
    \/ UpdateMarketPrice
    \/ CancelOrder

Spec == Init /\ [][Next]_vars

\* The service with OCO orders only.
NextOCO == CreateOCO \/ UpdateMarketPrice \/ CancelOrder

SpecOCO == Init /\ [][NextOCO]_vars

\* The service with bracket orders only.
NextBracket == CreateBracket \/ UpdateMarketPrice \/ CancelOrder

SpecBracket == Init /\ [][NextBracket]_vars

\* The service with trailing-stop orders only.
NextTrailing == CreateTrailingStop \/ UpdateMarketPrice \/ CancelOrder

SpecTrailing == Init /\ [][NextTrailing]_vars

\* The service with iceberg orders only.
NextIceberg == CreateIceberg \/ UpdateMarketPrice \/ CancelOrder

SpecIceberg == Init /\ [][NextIceberg]_vars

\* The requests of the REST clients, served while an id is free.
ApiCreateOCO ==
    /\ NewId \in OrderIds
    /\ \E symbol \in SymbolInputs, side \in RequestSides,
          order1 \in OCOLegInputs, order2 \in OCOLegInputs, klines \in KlinesOutcomes :
           Respond(api_create_oco_order(
               [symbol |-> symbol, side |-> side, quantity |-> 1,
                order1 |-> order1, order2 |-> order2], klines))

ApiCreateBracket ==
    /\ NewId \in OrderIds
    /\ \E symbol \in SymbolInputs, side \in RequestSides, entry_order \in EntryInputs,
          stop_price \in Prices, limit_price \in Prices, klines \in KlinesOutcomes :
           Respond(api_create_bracket_order(
               [symbol |-> symbol, side |-> side, quantity |-> 1,
                entry_order |-> entry_order,
                stop_loss |-> [stop_price |-> stop_price],
                take_profit |-> [limit_price |-> limit_price]], klines))

ApiCreateTrailingStop ==
    /\ NewId \in OrderIds
    /\ \E symbol \in SymbolInputs, side \in RequestSides,
          trail_amount \in TrailAmounts \cup {None},
          trail_percent \in TrailPercents \cup {None},
          activation_price \in Prices \cup {None}, klines \in KlinesOutcomes :
           Respond(api_create_trailing_stop_order(
               [symbol |-> symbol, side |-> side, quantity |-> 1,
                trail_amount |-> trail_amount, trail_percent |-> trail_percent,
                activation_price |-> activation_price], klines))

ApiCreateIceberg ==
    /\ NewId \in OrderIds
    /\ \E symbol \in SymbolInputs, side \in RequestSides,
          total_quantity \in Quantities, display_quantity \in Quantities,
          klines \in KlinesOutcomes :
           Respond(api_create_iceberg_order(
               [symbol |-> symbol, side |-> side, total_quantity |-> total_quantity,
                display_quantity |-> display_quantity], klines))

CancelAdvancedOrder ==
    \E order_id \in OrderIds : cancel_advanced_order(order_id)

\* The REST interface with the ticker stream, one kind of order at a time.
NextOCOApi == ApiCreateOCO \/ UpdateMarketPrice \/ CancelAdvancedOrder

SpecOCOApi == Init /\ [][NextOCOApi]_vars

NextBracketApi == ApiCreateBracket \/ UpdateMarketPrice \/ CancelAdvancedOrder

SpecBracketApi == Init /\ [][NextBracketApi]_vars

NextTrailingApi == ApiCreateTrailingStop \/ UpdateMarketPrice \/ CancelAdvancedOrder

SpecTrailingApi == Init /\ [][NextTrailingApi]_vars

NextIcebergApi == ApiCreateIceberg \/ UpdateMarketPrice \/ CancelAdvancedOrder

SpecIcebergApi == Init /\ [][NextIcebergApi]_vars

\* The REST interface with the four kinds of order.
NextApi ==
    \/ ApiCreateOCO
    \/ ApiCreateBracket
    \/ ApiCreateTrailingStop
    \/ ApiCreateIceberg
    \/ UpdateMarketPrice
    \/ CancelAdvancedOrder

SpecApi == Init /\ [][NextApi]_vars

SetWebsocketManager ==
    /\ _websocket_manager = None
    /\ set_websocket_manager(websocket_manager)

BroadcastOrderUpdate == _broadcast_order_update

\* The service with a websocket manager and the event loop running the
\* broadcasts, for OCO orders and for bracket orders.
NextOCOLive == NextOCO \/ SetWebsocketManager \/ BroadcastOrderUpdate

SpecOCOLive == Init /\ [][NextOCOLive]_vars

NextBracketLive == NextBracket \/ SetWebsocketManager \/ BroadcastOrderUpdate

SpecBracketLive == Init /\ [][NextBracketLive]_vars


\* The OCO service with update_market_price followed statement by statement.
\* Everything else is a turn of the event loop, which starts one when no
\* call is on the stack.
EventLoopTurn ==
    /\ Idle
    /\ CreateOCO \/ CancelOrder \/ SetWebsocketManager \/ BroadcastOrderUpdate

NextOCOSteps ==
    \/ EventLoopTurn
    \/ EnterUpdateMarketPrice
    \/ ReadOCOTriggers
    \/ WriteOCOFill
    \/ LeaveUpdateMarketPrice

SpecOCOSteps == Init /\ [][NextOCOSteps]_vars


\* The application after its startup: main.py has handed the websocket
\* manager to set_websocket_manager before any request is served.
Started ==
    /\ oco_orders = << >>
    /\ bracket_orders = << >>
    /\ trailing_stop_orders = << >>
    /\ iceberg_orders = << >>
    /\ monitored_prices = [s \in SymbolInputs |-> None]
    /\ _websocket_manager = websocket_manager
    /\ scheduled = <<>>
    /\ raised = "None"
    /\ frame = <<>>
    /\ trailing_stop_service = TrailingStopService

\* The started application with all four kinds of order and the event loop
\* running the broadcasts.
NextStarted == Next \/ BroadcastOrderUpdate

SpecStarted == Started /\ [][NextStarted]_vars


\* The trail parameters the REST layer accepts: TrailingStopOrderRequest
\* declares both as Optional[float] with no range, and the handler rejects
\* only a request in which both are falsy.  A negative trail_amount passes.
AcceptedTrailInputs ==
    {t \in [trail_amount : TrailAmounts \cup {None, 0 - 4},
            trail_percent : TrailPercents \cup {None}] :
        Truthy(t.trail_amount) \/ Truthy(t.trail_percent)}

CreateAcceptedTrailingStop ==
    /\ NewId \in OrderIds
    /\ \E symbol \in SymbolInputs, side \in SideInputs, t \in AcceptedTrailInputs,
          activation_price \in Prices \cup {None}, current_price \in Prices :
           create_trailing_stop_order(symbol, side, 1, t.trail_amount, t.trail_percent,
                                      activation_price, current_price)

\* The started application with trailing stops of every accepted trail.
NextTrailingAccepted ==
    \/ CreateAcceptedTrailingStop
    \/ UpdateMarketPrice
    \/ CancelOrder
    \/ BroadcastOrderUpdate

SpecTrailingAccepted == Started /\ [][NextTrailingAccepted]_vars


\* The TrailingStopService: calls of start and stop, and the event loop
\* resuming one of the _monitor_loop tasks.
Start ==
    /\ trailing_stop_service.running \/ Len(trailing_stop_service.tasks) < MaxLoops
    /\ start

Stop == stop

MonitorLoop == \E i \in 1 .. MaxLoops : _monitor_loop(i)

NextTrailingStopService == Start \/ Stop \/ MonitorLoop

SpecTrailingStopService == Init /\ [][NextTrailingStopService]_vars

\* Two orders sharing an update.  The leg dictionaries are what the REST
\* layer lets through (Dict[str, Any]): a LIMIT leg whose price is a number
\* or is not.
PairLegInputs ==
    [order_type : {"LIMIT"}, price : {1, NotANumber},
     stop_price : {None}, limit_price : {None}]

CreatePairOCO ==
    /\ NewId \in PairIds
    /\ \E symbol \in SymbolInputs, side \in {"BUY", "SELL"},
          order1 \in PairLegInputs, order2 \in PairLegInputs :
           create_oco_order(symbol, side, 1, order1, order2)

CreatePairIceberg ==
    /\ NewId \in PairIds
    /\ \E symbol \in SymbolInputs, side \in {"BUY", "SELL"} :
           create_iceberg_order(symbol, side, 1, 1)

CancelPairOrder ==
    \E order_id \in PairIds : cancel_order(order_id)

NextPair == CreatePairOCO \/ CreatePairIceberg \/ UpdateMarketPrice \/ CancelPairOrder

SpecPair == Init /\ [][NextPair]_vars

(* ------------------------------- claims -------------------------------- *)

\* C1: at most one leg of an OCO order is ever FILLED; the step in which a
\* leg becomes FILLED also sets the other leg CANCELLED, filled_leg to the
\* number of the filled leg and the parent status to FILLED, and a filled
\* order's legs never change again.
C1_OCOExclusive ==
    [][\A id \in DOMAIN oco_orders :
          LET o == oco_orders[id]
              n == oco_orders'[id]
          IN  /\ ~(n.order1.status = "FILLED" /\ n.order2.status = "FILLED")
              /\ (o.order1.status # "FILLED" /\ n.order1.status = "FILLED")
                    => /\ n.order2.status = "CANCELLED"
                       /\ n.filled_leg = 1
                       /\ n.status = "FILLED"
              /\ (o.order2.status # "FILLED" /\ n.order2.status = "FILLED")
                    => /\ n.order1.status = "CANCELLED"
                       /\ n.filled_leg = 2
                       /\ n.status = "FILLED"
              /\ (o.order1.status = "FILLED" \/ o.order2.status = "FILLED")
                    => /\ n.order1 = o.order1
                       /\ n.order2 = o.order2
                       /\ n.filled_leg = o.filled_leg]_vars

\* An OCO order whose second leg filled: the first leg is CANCELLED.
C1_Witness ==
    \E id \in DOMAIN oco_orders :
        /\ oco_orders[id].order2.status = "FILLED"
        /\ oco_orders[id].order1.status = "CANCELLED"
        /\ oco_orders[id].filled_leg = 2
        /\ oco_orders[id].status = "FILLED"

\* C2: on a price update of an ACTIVE OCO order at which both legs' trigger
\* predicates are true, order1 becomes FILLED (filled_leg = 1) and order2
\* CANCELLED; order2 becomes FILLED only at a price where order1's predicate
\* is false.
C2_Leg1Wins ==
    [][\A id \in DOMAIN oco_orders :
          LET o == oco_orders[id]
              n == oco_orders'[id]
          IN  /\ \A symbol \in SymbolInputs, price \in Prices :
                    ( /\ update_market_price(symbol, price)
                      /\ o.symbol = symbol
                      /\ o.status = "ACTIVE"
                      /\ _check_leg_trigger(o.order1, price, o.side)
                      /\ _check_leg_trigger(o.order2, price, o.side) )
                    => /\ n.order1.status = "FILLED"
                       /\ n.filled_leg = 1
                       /\ n.order2.status = "CANCELLED"
              /\ (o.order2.status # "FILLED" /\ n.order2.status = "FILLED")
                    => ~_check_leg_trigger(o.order1, monitored_prices'[o.symbol], o.side)]_vars

\* Two legs with the same trigger (both predicates true on the same
\* updates), the first one filled.
C2_Witness ==
    \E id \in DOMAIN oco_orders :
        LET o == oco_orders[id]
        IN  /\ o.order1.order_type = o.order2.order_type
            /\ o.order1.price = o.order2.price
            /\ o.order1.stop_price = o.order2.stop_price
            /\ o.status = "FILLED"
            /\ o.filled_leg = 1
            /\ o.order1.status = "FILLED"
            /\ o.order2.status = "CANCELLED"
            /\ _check_leg_trigger(o.order2, monitored_prices[o.symbol], o.side)

\* C3: while entry_filled is false no step sets the stop-loss or the
\* take-profit leg FILLED or CANCELLED, and the step that fills the entry
\* (a MARKET entry on its first update included, whatever the price) leaves
\* exit_filled false and both exit legs ACTIVE.
C3_ExitAfterEntry ==
    [][\A id \in DOMAIN bracket_orders :
          LET o == bracket_orders[id]
              n == bracket_orders'[id]
          IN  ~o.entry_filled
                 => /\ n.stop_loss_order.status \notin {"FILLED", "CANCELLED"}
                    /\ n.take_profit_order.status \notin {"FILLED", "CANCELLED"}
                    /\ ~n.exit_filled
                    /\ n.entry_filled
                          => /\ n.entry_order.status = "FILLED"
                             /\ n.stop_loss_order.status = "ACTIVE"
                             /\ n.take_profit_order.status = "ACTIVE"]_vars

\* A MARKET entry just filled at a price that satisfies the take-profit
\* condition: the exit is still open.
C3_Witness ==
    \E id \in DOMAIN bracket_orders :
        LET o == bracket_orders[id]
        IN  /\ o.entry_order.order_type = "MARKET"
            /\ o.entry_filled
            /\ ~o.exit_filled
            /\ o.status = "ACTIVE"
            /\ o.take_profit_order.status = "ACTIVE"
            /\ monitored_prices[o.symbol] # None
            /\ _check_profit_trigger(o.take_profit_order, monitored_prices[o.symbol], o.side)

\* C4: at most one of the stop-loss and take-profit legs is ever FILLED;
\* exit_filled holds exactly when one of them is FILLED; the step in which
\* one becomes FILLED sets the sibling CANCELLED and the parent FILLED, and
\* the exit legs never change afterwards.
C4_OneExit ==
    [][\A id \in DOMAIN bracket_orders :
          LET o == bracket_orders[id]
              n == bracket_orders'[id]
          IN  /\ ~(n.stop_loss_order.status = "FILLED"
                   /\ n.take_profit_order.status = "FILLED")
              /\ n.exit_filled <=> (n.stop_loss_order.status = "FILLED"
                                    \/ n.take_profit_order.status = "FILLED")
              /\ (o.stop_loss_order.status # "FILLED"
                  /\ n.stop_loss_order.status = "FILLED")
                    => /\ n.take_profit_order.status = "CANCELLED"
                       /\ n.status = "FILLED"
              /\ (o.take_profit_order.status # "FILLED"
                  /\ n.take_profit_order.status = "FILLED")
                    => /\ n.stop_loss_order.status = "CANCELLED"
                       /\ n.status = "FILLED"
              /\ o.exit_filled
                    => /\ n.stop_loss_order = o.stop_loss_order
                       /\ n.take_profit_order = o.take_profit_order
                       /\ n.exit_filled]_vars

\* A bracket order that left by its take-profit leg.
C4_Witness ==
    \E id \in DOMAIN bracket_orders :
        LET o == bracket_orders[id]
        IN  /\ o.exit_filled
            /\ o.take_profit_order.status = "FILLED"
            /\ o.stop_loss_order.status = "CANCELLED"
            /\ o.status = "FILLED"

\* The quantities of a sequence of slices, added up.
RECURSIVE SumQuantity(_)
SumQuantity(slices) ==
    IF slices = <<>>
    THEN 0
    ELSE slices[1].quantity + SumQuantity(Tail(slices))

\* C5: every price update for the symbol of an iceberg order that is ACTIVE
\* or PARTIALLY_FILLED with current_slice below the slice count fills the
\* slice at current_slice, and the update that fills the last slice leaves
\* executed_quantity = total_quantity and status FILLED (so n updates end an
\* order of n slices).
C5_SliceEveryUpdate ==
    [][\A id \in DOMAIN iceberg_orders :
          LET o == iceberg_orders[id]
              n == iceberg_orders'[id]
          IN  \A symbol \in SymbolInputs, price \in Prices :
                  ( /\ update_market_price(symbol, price)
                    /\ o.symbol = symbol
                    /\ o.status \in {"ACTIVE", "PARTIALLY_FILLED"}
                    /\ o.current_slice < Len(o.slices) )
                  => /\ n.current_slice = o.current_slice + 1
                     /\ n.slices[n.current_slice].status = "FILLED"
                     /\ n.current_slice = Len(n.slices)
                           => /\ n.status = "FILLED"
                              /\ n.executed_quantity = n.total_quantity]_vars

C7_StopNeverLoosens ==
    [][\A id \in DOMAIN trailing_stop_orders :
          LET o == trailing_stop_orders[id]
              n == trailing_stop_orders'[id]
          IN  /\ o.side = "BUY" => n.current_stop_price >= o.current_stop_price
              /\ o.side = "SELL" => n.current_stop_price <= o.current_stop_price]_vars

\* C8: once is_activated holds, peak_price never falls for a BUY order and
\* never rises for a SELL order, and it changes only in a price update for
\* the order's symbol whose price is strictly more favourable than the
\* stored peak (the new peak is that price).
C8_PeakMonotone ==
    [][\A id \in DOMAIN trailing_stop_orders :
          LET o == trailing_stop_orders[id]
              n == trailing_stop_orders'[id]
          IN  o.is_activated
                 => /\ n.is_activated
                    /\ o.side = "BUY" => n.peak_price >= o.peak_price
                    /\ o.side = "SELL" => n.peak_price <= o.peak_price
                    /\ n.peak_price # o.peak_price
                          => \E price \in Prices :
                                /\ update_market_price(o.symbol, price)
                                /\ n.peak_price = price
                                /\ o.side = "BUY" => price > o.peak_price
                                /\ o.side = "SELL" => price < o.peak_price]_vars

\* An order activated at creation whose peak has since moved up: the stop
\* is the trailed peak, no longer the creation price.
C8_Witness ==
    \E id \in DOMAIN trailing_stop_orders :
        LET o == trailing_stop_orders[id]
        IN  /\ o.side = "BUY"
            /\ o.activation_price = None
            /\ o.is_activated
            /\ o.status = "ACTIVE"
            /\ o.peak_price = MaxPrice
            /\ o.current_stop_price = TrailedStop(o, o.peak_price)
            /\ o.current_stop_price # o.peak_price * PriceScale

\* C9: a price update sets an activated ACTIVE trailing stop FILLED exactly
\* when, after the update's ratchet, the price is at or beyond
\* current_stop_price (BUY: price <= stop, SELL: price >= stop); and a BUY
\* order fed prices that do not fall below its peak (50000, 51000, 52000)
\* stays ACTIVE, its stop rising with each new peak.
C9_TriggerAtStop ==
    [][\A id \in DOMAIN trailing_stop_orders :
          LET o == trailing_stop_orders[id]
              n == trailing_stop_orders'[id]
          IN  \A price \in Prices :
                  ( /\ update_market_price(o.symbol, price)
                    /\ o.is_activated
                    /\ o.status = "ACTIVE" )
                  => /\ n.status = "FILLED"
                           <=> IF o.side = "BUY"
                               THEN price * PriceScale <= n.current_stop_price
                               ELSE price * PriceScale >= n.current_stop_price
                     /\ (o.side = "BUY" /\ price >= o.peak_price)
                           => n.status = "ACTIVE"
                     /\ (o.side = "BUY" /\ price > o.peak_price)
                           => n.current_stop_price > o.current_stop_price]_vars

\* C10: a trailing stop created with an activation price starts not
\* activated; an update that has not reached the activation price (BUY:
\* price < activation, SELL: price > activation) leaves it not activated and
\* not FILLED; the first update that reaches it sets is_activated, sets
\* peak_price to the update's price and current_stop_price to that price
\* less (BUY) or plus (SELL) the trail.  A BUY order of trail_percent 2
\* activated at 52500 has its stop at 51450.
C10_Activation ==
    [][/\ TrailedStop([side |-> "BUY", trail_percent |-> 2, trail_amount |-> None,
                       current_stop_price |-> 0], 52500) = 51450 * PriceScale
       /\ \A id \in DOMAIN trailing_stop_orders' \ DOMAIN trailing_stop_orders :
             LET n == trailing_stop_orders'[id]
             IN  n.activation_price # None => ~n.is_activated
       /\ \A id \in DOMAIN trailing_stop_orders :
             LET o == trailing_stop_orders[id]
                 n == trailing_stop_orders'[id]
                 a == o.activation_price
             IN  /\ ~n.is_activated => n.status # "FILLED"
                 /\ \A price \in Prices :
                       ( /\ update_market_price(o.symbol, price)
                         /\ a # None
                         /\ ~o.is_activated
                         /\ o.status = "ACTIVE" )
                       => IF (o.side = "BUY" /\ price < a) \/ (o.side = "SELL" /\ price > a)
                          THEN n = o
                          ELSE /\ n.is_activated
                               /\ n.peak_price = price
                               /\ n.current_stop_price =
                                     IF o.trail_percent # None
                                     THEN IF o.side = "BUY"
                                          THEN (price * (100 - o.trail_percent))
                                          ELSE (price * (100 + o.trail_percent))
                                     ELSE IF o.side = "BUY"
                                          THEN (price - o.trail_amount) * 100
                                          ELSE (price + o.trail_amount) * 100]_vars

\* A BUY order activated by an update at exactly its activation price.
C10_Witness ==
    \E id \in DOMAIN trailing_stop_orders :
        LET o == trailing_stop_orders[id]
        IN  /\ o.side = "BUY"
            /\ o.activation_price # None
            /\ o.is_activated
            /\ o.peak_price = o.activation_price
            /\ monitored_prices[o.symbol] = o.activation_price
            /\ o.current_stop_price = TrailedStop(o, o.activation_price)
            /\ o.status = "ACTIVE"

\* C11: cancel_order(id) sets the status CANCELLED only when the order is
\* non-terminal; on an order whose status is FILLED or CANCELLED it does not
\* raise and leaves the status and every other field as they were, for each
\* of the four kinds of order.
C11_CancelNonTerminalOnly ==
    [][\A order_id \in OrderIds :
          cancel_order(order_id)
             => /\ \A id \in DOMAIN oco_orders :
                      oco_orders[id].status \in {"FILLED", "CANCELLED"}
                         => oco_orders'[id] = oco_orders[id]
                /\ raised' = "None"
                /\ \A id \in DOMAIN bracket_orders :
                      bracket_orders[id].status \in {"FILLED", "CANCELLED"}
                         => bracket_orders'[id] = bracket_orders[id]
                /\ \A id \in DOMAIN trailing_stop_orders :
                      trailing_stop_orders[id].status \in {"FILLED", "CANCELLED"}
                         => trailing_stop_orders'[id] = trailing_stop_orders[id]
                /\ \A id \in DOMAIN iceberg_orders :
                      iceberg_orders[id].status \in {"FILLED", "CANCELLED"}
                         => iceberg_orders'[id] = iceberg_orders[id]]_vars

\* The requests POST /advanced-order/iceberg may receive.
IcebergRequests ==
    [symbol : SymbolInputs, side : RequestSides,
     total_quantity : Quantities, display_quantity : Quantities]

\* C12: a request to create an iceberg order with display_quantity above
\* total_quantity ends in a validation error (of the quantity check when the
\* side is valid, the side being checked first) and leaves the iceberg
\* registry, and the other three, as they were: no order and no slice is
\* built.
C12_DisplayAboveTotalRejected ==
    \A order \in IcebergRequests, klines \in KlinesOutcomes :
        order.display_quantity > order.total_quantity
           => LET handled == api_create_iceberg_order(order, klines)
              IN  /\ handled.raised \in ValidationErrors
                  /\ Upper(order.side) \in {"BUY", "SELL"}
                        => handled.raised = DisplayExceedsTotal
                  /\ handled.monitored.iceberg = iceberg_orders
                  /\ handled.monitored.oco = oco_orders
                  /\ handled.monitored.bracket = bracket_orders
                  /\ handled.monitored.trailing = trailing_stop_orders
                  /\ handled.price = None

\* A request just rejected by the quantity check: the registry is empty.
C12_Witness ==
    /\ raised = DisplayExceedsTotal
    /\ iceberg_orders = << >>

\* The requests POST /advanced-order/trailing-stop may receive.
TrailingStopRequests ==
    [symbol : SymbolInputs, side : RequestSides, quantity : {1},
     trail_amount : TrailAmounts \cup {None},
     trail_percent : TrailPercents \cup {None},
     activation_price : Prices \cup {None}]

OCORequests ==
    [symbol : SymbolInputs, side : RequestSides, quantity : {1},
     order1 : OCOLegInputs, order2 : OCOLegInputs]

\* The requests POST /advanced-order/bracket may receive.
BracketRequests ==
    [symbol : SymbolInputs, side : RequestSides, quantity : {1},
     entry_order : EntryInputs,
     stop_loss : [stop_price : Prices], take_profit : [limit_price : Prices]]

\* What a handler did amounts to a validation error with nothing written.
ValidationError(handled) ==
    /\ handled.raised \in ValidationErrors
    /\ handled.price = None
    /\ handled.monitored.oco = oco_orders
    /\ handled.monitored.bracket = bracket_orders
    /\ handled.monitored.trailing = trailing_stop_orders
    /\ handled.monitored.iceberg = iceberg_orders

\* C14: each of the four creation handlers answers a request whose side is
\* neither BUY nor SELL (in either letter case) with a validation error of
\* status 400, and adds no order to any registry.
C14_InvalidSideRejected ==
    \A klines \in KlinesOutcomes :
        /\ \A order \in OCORequests :
              Upper(order.side) \notin {"BUY", "SELL"}
                 => ValidationError(api_create_oco_order(order, klines))
        /\ \A order \in BracketRequests :
              Upper(order.side) \notin {"BUY", "SELL"}
                 => ValidationError(api_create_bracket_order(order, klines))
        /\ \A order \in TrailingStopRequests :
              Upper(order.side) \notin {"BUY", "SELL"}
                 => ValidationError(api_create_trailing_stop_order(order, klines))
        /\ \A order \in IcebergRequests :
              Upper(order.side) \notin {"BUY", "SELL"}
                 => ValidationError(api_create_iceberg_order(order, klines))

\* C15: the risk_reward_ratio of a bracket order created with an entry
\* price different from its stop price is |take-profit limit price - entry
\* price| / |entry price - stop price| (the ratio n / d being the pair
\* <<n, d>>, two ratios are equal when their cross products are); entry
\* 3000, stop 2900, take-profit 3200 gives 2.0.
C15_RiskRewardRatio ==
    /\ LET ratio == RiskReward([order_type |-> "LIMIT", price |-> 3000],
                               [stop_price |-> 2900], [limit_price |-> 3200])
       IN  ratio[2] > 0 /\ ratio[1] = 2 * ratio[2]
    /\ \A id \in DOMAIN bracket_orders :
          LET o == bracket_orders[id]
              entry == o.entry_order.price
              stop_price == o.stop_loss_order.stop_price
              profit == o.take_profit_order.limit_price
              ratio == o.risk_reward_ratio
          IN  (entry # None /\ entry # stop_price)
                 => /\ ratio[2] > 0
                    /\ ratio[1] * Abs(entry - stop_price) = ratio[2] * Abs(profit - entry)

\* An order of entry 1, stop_price 2 and take-profit 3: the ratio is 2 / 1.
C15_Witness ==
    \E id \in DOMAIN bracket_orders :
        LET o == bracket_orders[id]
        IN  /\ o.entry_order.price = 1
            /\ o.stop_loss_order.stop_price = 2
            /\ o.take_profit_order.limit_price = 3
            /\ o.risk_reward_ratio = <<2, 1>>

\* C16: when the evaluation of one order raises during update_market_price(
\* symbol, price), every other order, of the same registry and of the other
\* three, is evaluated on that update all the same: it is left as its own
\* iteration of its monitor loop leaves it.
C16_FailureIsolated ==
    [][\A symbol \in SymbolInputs, price \in Prices :
          update_market_price(symbol, price)
             => /\ \A id \in DOMAIN oco_orders :
                      ~OCORaises(oco_orders[id], symbol, price)
                         => oco_orders'[id] = OCOStep(oco_orders[id], symbol, price)
                /\ \A id \in DOMAIN bracket_orders :
                      bracket_orders'[id] = BracketStep(bracket_orders[id], symbol, price)
                /\ \A id \in DOMAIN trailing_stop_orders :
                      trailing_stop_orders'[id]
                         = TrailingStep(trailing_stop_orders[id], symbol, price)
                /\ \A id \in DOMAIN iceberg_orders :
                      iceberg_orders'[id] = IcebergStep(iceberg_orders[id], symbol, price)]_vars

\* C17: whatever the notification sink does (no manager set, the scheduling
\* of the broadcast failing, the broadcast raising), update_market_price
\* does not fail and every order is left as its iteration of the monitor
\* loop leaves it (the transition is made and kept, the later orders are
\* evaluated); and running a broadcast, delivered or not, takes it off the
\* queue for good and changes no order.
C17_SinkFailureHarmless ==
    [][/\ \A symbol \in SymbolInputs, price \in Prices :
             update_market_price(symbol, price)
                => /\ raised' = "None"
                   /\ \A id \in DOMAIN oco_orders :
                         oco_orders'[id] = OCOStep(oco_orders[id], symbol, price)
                   /\ \A id \in DOMAIN bracket_orders :
                         bracket_orders'[id] = BracketStep(bracket_orders[id], symbol, price)
                   /\ \A id \in DOMAIN trailing_stop_orders :
                         trailing_stop_orders'[id]
                            = TrailingStep(trailing_stop_orders[id], symbol, price)
                   /\ \A id \in DOMAIN iceberg_orders :
                         iceberg_orders'[id] = IcebergStep(iceberg_orders[id], symbol, price)
       /\ _broadcast_order_update
             => /\ scheduled' = Tail(scheduled)
                /\ UNCHANGED <<oco_orders, bracket_orders, trailing_stop_orders,
                               iceberg_orders>>]_vars

\* C18: an update_market_price call runs to completion.  From its entry to
\* its return no other call begins, no order is created or cancelled and no
\* task runs: an order the loop has not finished with is as the call found
\* it, and when the call returns or raises, the registries, the task queue
\* and the exception are those of the whole call made on the state it found.
C18_RunToCompletion ==
    [][frame # <<>> =>
          LET f == frame[1]
              whole == Monitored(f.registries, f.symbol, f.price, f.loop_running)
          IN  IF frame' # <<>>
              THEN /\ frame'[1].registries = f.registries
                   /\ frame'[1].scheduled = f.scheduled
                   /\ frame'[1].symbol = f.symbol
                   /\ frame'[1].price = f.price
                   /\ DOMAIN oco_orders' = DOMAIN f.registries.oco
                   /\ \A k \in 1 .. Len(frame'[1].values) :
                         oco_orders'[frame'[1].values[k]]
                             = f.registries.oco[frame'[1].values[k]]
                   /\ bracket_orders' = f.registries.bracket
                   /\ trailing_stop_orders' = f.registries.trailing
                   /\ iceberg_orders' = f.registries.iceberg
                   /\ _websocket_manager' = _websocket_manager
              ELSE /\ oco_orders' = whole.oco
                   /\ bracket_orders' = whole.bracket
                   /\ trailing_stop_orders' = whole.trailing
                   /\ iceberg_orders' = whole.iceberg
                   /\ scheduled' = f.scheduled \o whole.scheduled
                   /\ raised' = whole.raised]_vars

\* An update that found the order ACTIVE has read its triggers, filled it
\* and is about to return.
C18_Witness ==
    /\ frame # <<>>
    /\ frame[1].pc = "for"
    /\ frame[1].values = <<>>
    /\ 1 \in DOMAIN frame[1].registries.oco
    /\ frame[1].registries.oco[1].status = "ACTIVE"
    /\ oco_orders[1].status = "FILLED"

\* The ids of the orders the queued messages are about.
Notified(messages) == {messages[k].order.id : k \in 1 .. Len(messages)}

\* The orders of a registry that are FILLED or CANCELLED.
Terminal(registry) ==
    {id \in DOMAIN registry : registry[id].status \in {"FILLED", "CANCELLED"}}

\* C19: a price update leaves an order whose status is FILLED or CANCELLED
\* as it is, in every field and whatever its kind, and queues no message
\* about it: a cancelled order is not filled by a later update.  Stated of
\* every update that can be made in a state, at any symbol and price.
C19_TerminalUntouched ==
    \A symbol \in SymbolInputs, price \in Prices, loop_running \in BOOLEAN :
        LET m == Monitored(Registries, symbol, price, loop_running)
        IN  /\ \A id \in Terminal(oco_orders) : m.oco[id] = oco_orders[id]
            /\ \A id \in Terminal(bracket_orders) : m.bracket[id] = bracket_orders[id]
            /\ \A id \in Terminal(trailing_stop_orders) :
                  m.trailing[id] = trailing_stop_orders[id]
            /\ \A id \in Terminal(iceberg_orders) : m.iceberg[id] = iceberg_orders[id]
            /\ \A id \in Terminal(oco_orders) \cup Terminal(bracket_orders)
                      \cup Terminal(trailing_stop_orders) \cup Terminal(iceberg_orders) :
                  id \notin Notified(m.scheduled)

\* An OCO order filled by its first leg, its message queued, and the last
\* update for its symbol made afterwards, at a price that triggers the
\* second leg and not the first: the cancelled leg and the order are as the
\* fill left them.
C19_Witness ==
    /\ 1 \in DOMAIN oco_orders
    /\ oco_orders[1].status = "FILLED"
    /\ oco_orders[1].filled_leg = 1
    /\ oco_orders[1].order2.status = "CANCELLED"
    /\ monitored_prices[oco_orders[1].symbol] # None
    /\ ~_check_leg_trigger(oco_orders[1].order1,
                           monitored_prices[oco_orders[1].symbol], oco_orders[1].side)
    /\ _check_leg_trigger(oco_orders[1].order2,
                          monitored_prices[oco_orders[1].symbol], oco_orders[1].side)
    /\ Len(scheduled) = 1
    /\ scheduled[1].order.id = 1

\* C20: the stop-loss trigger of a bracket order is tested before its
\* take-profit trigger.  An update that evaluates an order (its symbol, not
\* cancelled) with entry_filled true and exit_filled false, at a price where
\* both exit predicates are true, sets the stop-loss leg FILLED, the
\* take-profit leg CANCELLED and the order FILLED, and the one message it
\* hands to the websocket manager has exit_type "stop_loss".  Stated of
\* every update that can be made in a state.
C20_StopLossFirst ==
    \A id \in DOMAIN bracket_orders, price \in Prices, loop_running \in BOOLEAN :
        LET order == bracket_orders[id]
            m == Monitored(Registries, order.symbol, price, loop_running)
        IN  (/\ order.status # "CANCELLED"
             /\ order.entry_filled
             /\ ~order.exit_filled
             /\ _check_stop_trigger(order.stop_loss_order, price, order.side)
             /\ _check_profit_trigger(order.take_profit_order, price, order.side))
                => /\ m.bracket[id].stop_loss_order.status = "FILLED"
                   /\ m.bracket[id].take_profit_order.status = "CANCELLED"
                   /\ m.bracket[id].exit_filled
                   /\ m.bracket[id].status = "FILLED"
                   /\ \A k \in 1 .. Len(m.scheduled) :
                         m.scheduled[k].order
                             = [id |-> id, symbol |-> order.symbol,
                                status |-> "FILLED", exit_type |-> "stop_loss"]
                   /\ (_websocket_manager # None /\ loop_running)
                         => Len(m.scheduled) = 1

\* A BUY bracket order whose stop price is the highest price and whose
\* take-profit price the lowest, so that both exit predicates are true at
\* every price: the update after the entry filled the stop-loss leg,
\* cancelled the take-profit leg and queued the stop_loss message.
C20_Witness ==
    /\ 1 \in DOMAIN bracket_orders
    /\ bracket_orders[1].side = "BUY"
    /\ bracket_orders[1].stop_loss_order.stop_price = MaxPrice
    /\ bracket_orders[1].take_profit_order.limit_price = 1
    /\ bracket_orders[1].entry_filled
    /\ bracket_orders[1].exit_filled
    /\ bracket_orders[1].stop_loss_order.status = "FILLED"
    /\ bracket_orders[1].take_profit_order.status = "CANCELLED"
    /\ scheduled # <<>>
    /\ scheduled[Len(scheduled)].order
          = [id |-> 1, symbol |-> bracket_orders[1].symbol,
             status |-> "FILLED", exit_type |-> "stop_loss"]

\* An OCO leg of the given type with the given trigger price.
StopMarketLeg(stop_price) ==
    OCOLeg([order_type |-> "STOP_MARKET", price |-> None, stop_price |-> stop_price,
            limit_price |-> None])

LimitLeg(price) ==
    OCOLeg([order_type |-> "LIMIT", price |-> price, stop_price |-> None,
            limit_price |-> None])

\* The side of the orders that close a position of the given side.
Opposite(side) == IF side = "BUY" THEN "SELL" ELSE "BUY"

\* C21 as stated: for the side of the bracket order and every price, the
\* stop-loss trigger fires exactly when the trigger of an OCO STOP_MARKET leg
\* with the same stop price and the same side fires, and the take-profit
\* trigger exactly when that of an OCO LIMIT leg with the same limit price
\* and the same side does.
C21_SameTriggersSameSide ==
    \A id \in DOMAIN bracket_orders, price \in Prices :
        LET order == bracket_orders[id]
        IN  /\ _check_stop_trigger(order.stop_loss_order, price, order.side)
                  <=> _check_leg_trigger(StopMarketLeg(order.stop_loss_order.stop_price),
                                         price, order.side)
            /\ _check_profit_trigger(order.take_profit_order, price, order.side)
                  <=> _check_leg_trigger(LimitLeg(order.take_profit_order.limit_price),
                                         price, order.side)

\* C21 amended: with a configured trigger price, the stop-loss trigger of a
\* bracket order of side s fires exactly when the trigger of an OCO
\* STOP_MARKET leg with that stop price fires for the opposite side, and its
\* take-profit trigger exactly when that of an OCO LIMIT leg with that limit
\* price fires for the opposite side: the exits of a BUY bracket are sells.
C21_SameTriggersOppositeSide ==
    \A id \in DOMAIN bracket_orders, price \in Prices :
        LET order == bracket_orders[id]
        IN  /\ Truthy(order.stop_loss_order.stop_price)
                  => (_check_stop_trigger(order.stop_loss_order, price, order.side)
                         <=> _check_leg_trigger(
                                 StopMarketLeg(order.stop_loss_order.stop_price),
                                 price, Opposite(order.side)))
            /\ Truthy(order.take_profit_order.limit_price)
                  => (_check_profit_trigger(order.take_profit_order, price, order.side)
                         <=> _check_leg_trigger(
                                 LimitLeg(order.take_profit_order.limit_price),
                                 price, Opposite(order.side)))

\* A BUY bracket order whose stop-loss leg was filled by an update at a price
\* below its stop price, where a BUY STOP_MARKET leg does not trigger.
C21_Witness ==
    /\ 1 \in DOMAIN bracket_orders
    /\ bracket_orders[1].side = "BUY"
    /\ bracket_orders[1].stop_loss_order.status = "FILLED"
    /\ bracket_orders[1].stop_loss_order.stop_price = MaxPrice
    /\ monitored_prices[bracket_orders[1].symbol] # None
    /\ monitored_prices[bracket_orders[1].symbol] < MaxPrice

\* C22: from its creation until a leg triggers or it is cancelled (while the
\* order itself is ACTIVE), both legs of an OCO order have status ACTIVE.
C22_LegsActive ==
    \A id \in DOMAIN oco_orders :
        oco_orders[id].status = "ACTIVE"
           => /\ oco_orders[id].order1.status = "ACTIVE"
              /\ oco_orders[id].order2.status = "ACTIVE"

\* The slices of an order that are FILLED, as the slices with their
\* quantity set to 0 where they are not.
FilledOnly(slices) ==
    [i \in 1 .. Len(slices) |->
        IF slices[i].status = "FILLED"
        THEN slices[i]
        ELSE [slices[i] EXCEPT !.quantity = 0]]

\* C23: in every state an iceberg order's executed_quantity is the sum of
\* the quantities of its FILLED slices and exactly the slices at indices
\* below current_slice are FILLED; no step decreases current_slice, and a
\* step (a price update among them) advances it by at most one.
C23_IcebergAccounting ==
    [][\A id \in DOMAIN iceberg_orders' :
          LET order == iceberg_orders'[id]
          IN  /\ order.executed_quantity = SumQuantity(FilledOnly(order.slices))
              /\ order.current_slice
                    = Cardinality({i \in 1 .. Len(order.slices) :
                                      order.slices[i].status = "FILLED"})
              /\ \A i \in 1 .. Len(order.slices) :
                    order.slices[i].status = "FILLED" <=> i <= order.current_slice
              /\ id \in DOMAIN iceberg_orders
                    => /\ order.current_slice >= iceberg_orders[id].current_slice
                       /\ order.current_slice <= iceberg_orders[id].current_slice + 1]_vars

\* An order of several slices after the update that filled its first slice.
C23_Witness ==
    /\ 1 \in DOMAIN iceberg_orders
    /\ Len(iceberg_orders[1].slices) > 1
    /\ iceberg_orders[1].current_slice = 1
    /\ iceberg_orders[1].slices[1].status = "FILLED"
    /\ iceberg_orders[1].executed_quantity = iceberg_orders[1].slices[1].quantity

\* The messages among the given ones that are about the order id.
About(messages, id) == SelectSeq(messages, LAMBDA message : message.order.id = id)

\* C24: a price update that fills a slice of an iceberg order hands exactly
\* one message about that order to the websocket manager (manager set, event
\* loop running): a completion when the order became FILLED, a slice fill
\* when it became PARTIALLY_FILLED.
C24_IcebergEvent ==
    \A id \in DOMAIN iceberg_orders, price \in Prices :
        LET order == iceberg_orders[id]
            m == Monitored(Registries, order.symbol, price, TRUE)
        IN  (/\ _websocket_manager # None
             /\ m.iceberg[id].current_slice = order.current_slice + 1)
                => /\ Len(About(m.scheduled, id)) = 1
                   /\ About(m.scheduled, id)[1].order.status = m.iceberg[id].status
                   /\ m.iceberg[id].status \in {"FILLED", "PARTIALLY_FILLED"}

\* C25: on one price update (manager set, event loop running) a trailing
\* stop hands at most one message to the websocket manager: the trigger
\* when the update sets it FILLED; otherwise the new stop exactly when
\* current_stop_price changed.
C25_OneTrailingEvent ==
    \A id \in DOMAIN trailing_stop_orders, price \in Prices :
        LET order == trailing_stop_orders[id]
            m == Monitored(Registries, order.symbol, price, TRUE)
            after == m.trailing[id]
            events == About(m.scheduled, id)
        IN  _websocket_manager # None
               => /\ Len(events) <= 1
                  /\ (order.status = "ACTIVE" /\ after.status = "FILLED")
                        => /\ Len(events) >= 1
                           /\ events[Len(events)].order
                                 = [id |-> id, symbol |-> order.symbol,
                                    status |-> "FILLED", triggered |-> TRUE]
                  /\ ~(order.status = "ACTIVE" /\ after.status = "FILLED")
                        => IF after.current_stop_price # order.current_stop_price
                           THEN /\ Len(events) >= 1
                                /\ events[1].order
                                      = [id |-> id, symbol |-> order.symbol,
                                         current_stop_price |-> after.current_stop_price,
                                         peak_price |-> after.peak_price]
                           ELSE events = <<>>

\* C26: whenever a trailing-stop order is activated, right after its
\* creation without an activation price included, current_stop_price is
\* peak_price adjusted by the trail in the stop-loss direction.
C26_StopFollowsPeak ==
    \A id \in DOMAIN trailing_stop_orders :
        trailing_stop_orders[id].is_activated
           => trailing_stop_orders[id].current_stop_price
                 = TrailedStop(trailing_stop_orders[id], trailing_stop_orders[id].peak_price)

\* C27: a leg whose trigger price is absent or zero never fires, for either
\* side and every positive price: the LIMIT and STOP legs of the OCO orders
\* in the registry, and a bracket stop-loss without stop_price and a bracket
\* take-profit without limit_price.
C27_AbsentPriceNeverFires ==
    \A price \in Prices :
        /\ \A id \in DOMAIN oco_orders :
              \A leg \in {oco_orders[id].order1, oco_orders[id].order2} :
                  /\ (leg.order_type = "LIMIT" /\ ~Truthy(leg.price))
                        => ~_check_leg_trigger(leg, price, oco_orders[id].side)
                  /\ (leg.order_type \in {"STOP_MARKET", "STOP_LIMIT"}
                         /\ ~Truthy(leg.stop_price))
                        => ~_check_leg_trigger(leg, price, oco_orders[id].side)
        /\ \A side \in {"BUY", "SELL"}, absent \in {None, 0} :
              /\ ~_check_stop_trigger(BracketLeg("STOP_MARKET", 1, None, absent, None),
                                      price, side)
              /\ ~_check_profit_trigger(BracketLeg("LIMIT", 1, None, None, absent),
                                        price, side)

\* The registry with the status of order_id, if it holds it, CANCELLED and
\* nothing else written.
OnlyStatus(registry, order_id) ==
    [id \in DOMAIN registry |->
        IF id = order_id
        THEN [registry[id] EXCEPT !.status = "CANCELLED"]
        ELSE registry[id]]

C29_SymbolKeysAgree ==
    \A id \in DOMAIN oco_orders, s \in SymbolInputs, price \in Prices :
        OCOOrder(s, oco_orders[id].side, 1, oco_orders[id].order1,
                 oco_orders[id].order2).symbol = oco_orders[id].symbol
           => Monitored(Registries, s, price, TRUE).oco[id]
                 = OCOStep(oco_orders[id], oco_orders[id].symbol, price)

\* C30: whatever the order of the start and stop calls and of the sleeps of
\* the monitor loop, at most one _monitor_loop task is alive.
C30_OneMonitorLoop == Cardinality(Alive) <= 1

====
